---- MODULE Spec2Model ----
(***************************************************************************)
(* youtube-mcp: configuration loading (pkg/server config), the credential  *)
(* acquisition state machine of the server (cmd/server/main.go, pkg/server *)
(* youtube client) and its five tool handlers                              *)
(* (pkg/server/mcp_tools_official.go).                                     *)
(*                                                                         *)
(* One process run goes main (load the configuration, validate it)         *)
(* -> NewYouTubeClient -> (API key | OAuth2)                               *)
(* -> SetupOfficialMCPTools -> Run; the file system outlives the process,  *)
(* so a run can be followed by another run over the same files.            *)
(***************************************************************************)
EXTENDS Integers, Sequences, FiniteSets, TLC

VARIABLES
    env,         \* the process environment: variable name -> value ("": not set)
    dotenv,      \* the variables the .env file of the working directory sets
    useJSON,     \* the -json-config flag
    configFile,  \* the file at the -config path
    credsFile,   \* state of the file at cfg.OAuth2CredentialsFile
    fs,          \* token files: path -> content
    run,         \* number of the current process run (1, 2, ...)
    cfg,         \* the loaded *Config of this run
    pc,          \* where this run's main goroutine is
    service,     \* YouTubeClient.service of this run
    trace,       \* the I/O steps this run has performed, in order
    exitCode,    \* -1 while the process lives, else its exit status
    savedRun,    \* path -> the run whose saveToken wrote the file completely (0: none)
    last,        \* the tool call whose handler has returned and whose result is
                 \* not yet sent (NoCall: none)
    calls        \* the handlers that run side by side, one goroutine each:
                 \* slot -> what that handler has reached

vars == <<env, dotenv, useJSON, configFile, credsFile, fs, run, cfg, pc, service, trace, exitCode,
          savedRun, last, calls>>

----------------------------------------------------------------------------
(* Bounds *)

MaxRuns == 2

\* The tool calls the server works on at the same time.
MaxCalls == 2

Slots == 1..MaxCalls

\* A slot no handler runs in.
Idle == [stage |-> "idle"]

----------------------------------------------------------------------------
(* Files *)

TokenPaths == {"token.json", "alt.json"}

APIKeys == {"", "AIza"}

Omitted == "<omitted>"

\* oauth2.Token as the code holds it.
Tokens ==
    [access_token : {"ya29"}, token_type : {"Bearer"},
     refresh_token : {"", "1//r"}, expiry : {"past", "future"}]

ZeroToken == [access_token |-> "", token_type |-> "", refresh_token |-> "", expiry |-> "zero"]

NoObject ==
    [access_token |-> Omitted, token_type |-> Omitted, refresh_token |-> Omitted, expiry |-> Omitted]

Absent == [kind |-> "absent", obj |-> NoObject]

Garbage == [kind |-> "garbage", obj |-> NoObject]

\* An empty file: what os.Create leaves when nothing is written after it.
Truncated == [kind |-> "empty", obj |-> NoObject]

JsonFile(o) == [kind |-> "json", obj |-> o]

\* json.NewEncoder(f).Encode(token): string fields tagged omitempty are left
\* out when empty, access_token and the expiry struct are always written.
Encode(tok) ==
    [access_token  |-> tok.access_token,
     token_type    |-> IF tok.token_type = "" THEN Omitted ELSE tok.token_type,
     refresh_token |-> IF tok.refresh_token = "" THEN Omitted ELSE tok.refresh_token,
     expiry        |-> tok.expiry]

\* json.NewDecoder(f).Decode(tok) into a fresh &oauth2.Token{}: a key that is
\* missing leaves the field at its zero value.
Decode(o) ==
    [access_token  |-> IF o.access_token = Omitted THEN "" ELSE o.access_token,
     token_type    |-> IF o.token_type = Omitted THEN "" ELSE o.token_type,
     refresh_token |-> IF o.refresh_token = Omitted THEN "" ELSE o.refresh_token,
     expiry        |-> IF o.expiry = Omitted THEN "zero" ELSE o.expiry]

\* tokenFromFile with a validity check the code does not make: an expired
\* token is reported as an error.
tokenFromFile_checksExpiry(file) ==
    CASE fs[file].kind = "absent" -> [err |-> "open", tok |-> ZeroToken]
      [] fs[file].kind = "json" /\ Decode(fs[file].obj).expiry # "past" ->
           [err |-> "nil", tok |-> Decode(fs[file].obj)]
      [] OTHER -> [err |-> "decode", tok |-> ZeroToken]

\* tokenFromFile: os.Open fails on a missing file, Decode fails on a file that
\* is not JSON (an empty file included); nothing else is looked at.
tokenFromFile(file) ==
    CASE fs[file].kind = "absent" -> [err |-> "open", tok |-> ZeroToken]
      [] fs[file].kind = "json"   -> [err |-> "nil", tok |-> Decode(fs[file].obj)]
      [] OTHER                    -> [err |-> "decode", tok |-> ZeroToken]

\* fileExists of main.go: !os.IsNotExist(Stat(filename)).
fileExists == credsFile # "absent"

NoService == [mode |-> "nil", tok |-> ZeroToken]

NoCall == [tool |-> "none"]

----------------------------------------------------------------------------
(* Configuration: Config, DefaultConfig, LoadConfig, LoadConfigFromJSON,     *)
(* SaveConfig                                                                *)

\* The fields of Config (12-26).
Fields == {"YouTubeAPIKey", "OAuth2CredentialsFile", "TokenFile",
           "ServerName", "ServerVersion", "ServerDescription"}

\* The json tag of each field.
JsonTag(f) ==
    CASE f = "YouTubeAPIKey"         -> "youtube_api_key"
      [] f = "OAuth2CredentialsFile" -> "oauth2_credentials_file"
      [] f = "TokenFile"             -> "token_file"
      [] f = "ServerName"            -> "server_name"
      [] f = "ServerVersion"         -> "server_version"
      [] f = "ServerDescription"     -> "server_description"

JsonTags == {JsonTag(f) : f \in Fields}

\* The environment variable LoadConfig reads for each field.
EnvVar(f) ==
    CASE f = "YouTubeAPIKey"         -> "YOUTUBE_API_KEY"
      [] f = "OAuth2CredentialsFile" -> "OAUTH2_CREDENTIALS_FILE"
      [] f = "TokenFile"             -> "TOKEN_FILE"
      [] f = "ServerName"            -> "SERVER_NAME"
      [] f = "ServerVersion"         -> "SERVER_VERSION"
      [] f = "ServerDescription"     -> "SERVER_DESCRIPTION"

EnvVars == {EnvVar(f) : f \in Fields}

\* `var cfg *server.Config` before it is loaded.
NoConfig == [nil |-> TRUE]

\* DefaultConfig 29-38, in the environment environ.
DefaultConfig(environ) ==
    [YouTubeAPIKey         |-> environ["YOUTUBE_API_KEY"],
     OAuth2CredentialsFile |-> "client_secret.json",
     TokenFile             |-> "token.json",
     ServerName            |-> "youtube-mcp-server",
     ServerVersion         |-> "1.0.0",
     ServerDescription     |->
         "YouTube Data API v3 MCP Server for video search, channel info, and more"]

\* godotenv.Load (43): the variables of .env enter the environment, except
\* those the environment has already.
GodotenvLoad(environ, dot) ==
    [v \in EnvVars |-> IF environ[v] # "" THEN environ[v] ELSE dot[v]]

\* The override of one field from its environment variable, if that is set.
FromEnv(config, environ, f) ==
    IF environ[EnvVar(f)] # "" THEN environ[EnvVar(f)] ELSE config[f]

\* LoadConfig 41-70
LoadConfig(environ, dot) ==
    LET loaded == GodotenvLoad(environ, dot)
        config == DefaultConfig(loaded)
    IN [err |-> FALSE,
        config |-> [f \in Fields |-> FromEnv(config, loaded, f)]]

\* json.Unmarshal(data, config): the keys of the object overwrite their
\* fields, the other fields stay.
Unmarshal(obj, config) ==
    [f \in Fields |-> IF JsonTag(f) \in DOMAIN obj THEN obj[JsonTag(f)] ELSE config[f]]

\* LoadConfigFromJSON with every override of LoadConfig.
LoadConfigFromJSON_allOverrides(environ, file) ==
    LET config == DefaultConfig(environ)
    IN CASE file.kind = "absent" -> [err |-> FALSE, config |-> config]
         [] file.kind \in {"unreadable", "garbage"} -> [err |-> TRUE, config |-> NoConfig]
         [] file.kind = "json" ->
              LET read == Unmarshal(file.obj, config)
              IN [err |-> FALSE,
                  config |-> [f \in Fields |-> FromEnv(read, environ, f)]]

\* LoadConfigFromJSON 73-96: of the environment only YOUTUBE_API_KEY is read.
LoadConfigFromJSON(environ, file) ==
    LET config == DefaultConfig(environ)
    IN CASE file.kind = "absent" -> [err |-> FALSE, config |-> config]
         [] file.kind \in {"unreadable", "garbage"} -> [err |-> TRUE, config |-> NoConfig]
         [] file.kind = "json" ->
              LET read == Unmarshal(file.obj, config)
              IN [err |-> FALSE,
                  config |-> [read EXCEPT !.YouTubeAPIKey =
                                 FromEnv(read, environ, "YouTubeAPIKey")]]

\* The field a json tag belongs to.
FieldOf(tag) == CHOOSE f \in Fields : JsonTag(f) = tag

\* SaveConfig 99-106: the file c is written to.
SaveConfig(c) == [kind |-> "json", obj |-> [t \in JsonTags |-> c[FieldOf(t)]]]

NoConfigFile == [kind |-> "absent", obj |-> <<>>]

\* No .env file, or one that sets none of the variables.
NoDotEnv == [v \in EnvVars |-> ""]

\* The environment with nothing set but what vals sets.
Environ(vals) == [v \in EnvVars |-> IF v \in DOMAIN vals THEN vals[v] ELSE ""]

\* The environments the runs of the whole-lifecycle specification start in:
\* an API key or none, the default token path or another one.
RunEnvironments ==
    {Environ([YOUTUBE_API_KEY |-> k, TOKEN_FILE |-> t]) : k \in APIKeys, t \in {"", "alt.json"}}

----------------------------------------------------------------------------
(* Start-up *)

Log(e) == trace' = Append(trace, e)

Happened(e) == \E i \in 1..Len(trace) : trace[i] = e

\* log.Fatalf / os.Exit(1)
Fatal ==
    /\ pc' = "exited"
    /\ exitCode' = 1

InitialFiles == {Absent, Garbage, JsonFile(NoObject),
                 JsonFile(Encode([access_token |-> "old", token_type |-> "Bearer",
                                  refresh_token |-> "", expiry |-> "past"]))}

\* The process has started and parsed its flags (16-19).
Started ==
    /\ run = 1
    /\ cfg = NoConfig
    /\ pc = "load"
    /\ service = NoService
    /\ trace = <<>>
    /\ exitCode = -1
    /\ savedRun = [p \in TokenPaths |-> 0]
    /\ last = NoCall
    /\ calls = [k \in Slots |-> Idle]

Init ==
    /\ env \in RunEnvironments
    /\ dotenv = NoDotEnv
    /\ useJSON = FALSE
    /\ configFile = NoConfigFile
    /\ credsFile \in {"absent", "unreadable", "malformed", "valid"}
    /\ fs \in [TokenPaths -> InitialFiles]
    /\ Started

\* main.go 21-32: the configuration is loaded, from the JSON file with
\* -json-config and from .env and the environment without; an error is fatal.
LoadConfiguration ==
    /\ pc = "load"
    /\ LET r == IF useJSON THEN LoadConfigFromJSON(env, configFile)
                ELSE LoadConfig(env, dotenv)
       IN IF r.err
            THEN Fatal /\ Log("Failed to load configuration") /\ UNCHANGED cfg
            ELSE cfg' = r.config /\ pc' = "main" /\ UNCHANGED <<exitCode, trace>>
    /\ UNCHANGED <<calls, env, dotenv, useJSON, configFile, credsFile, fs, run, service, savedRun, last>>

\* main.go 34-57: no API key and no credentials file: exit(1), with
\* -json-config after a sample config file is written where none is (a failure
\* to write it is only logged).
Validate ==
    /\ pc = "main"
    /\ IF cfg.YouTubeAPIKey = "" /\ ~fileExists
         THEN /\ Fatal
              /\ Log("exit: no credentials")
              /\ IF useJSON /\ configFile.kind = "absent"
                   THEN \E written \in BOOLEAN :
                          configFile' = IF written THEN SaveConfig(cfg) ELSE configFile
                   ELSE UNCHANGED configFile
         ELSE pc' = "NewYouTubeClient" /\ UNCHANGED <<exitCode, trace, configFile>>
    /\ UNCHANGED <<calls, env, dotenv, useJSON, credsFile, fs, run, cfg, service, savedRun, last>>

\* The branch of line 269 taken also whenever a credentials file is there.
NeedsOAuth2_credentialsFirst(s) == s.mode = "nil" \/ credsFile = "valid"

\* The branch of NewYouTubeClient line 269, on the service the API key gave.
NeedsOAuth2(s) == s.mode = "nil"

\* NewYouTubeClient 254-270: the API key first, OAuth2 when it left no service.
NewYouTubeClient ==
    /\ pc = "NewYouTubeClient"
    /\ \E built \in BOOLEAN :
         LET tried == cfg.YouTubeAPIKey # ""
             s == IF tried /\ built THEN [mode |-> "apikey", tok |-> ZeroToken] ELSE NoService
             ev == IF ~tried THEN <<>>
                   ELSE IF built THEN <<"NewService(APIKey)">> ELSE <<"NewService(APIKey) failed">>
         IN /\ service' = s
            /\ IF NeedsOAuth2(s)
                 THEN pc' = "getOAuth2Client" /\ trace' = trace \o ev \o <<"getOAuth2Client">>
                 ELSE pc' = "setup" /\ trace' = trace \o ev
    /\ UNCHANGED <<calls, env, dotenv, useJSON, configFile, credsFile, fs, run, cfg, exitCode, savedRun, last>>

\* getOAuth2Client 288-300: any error goes back through NewYouTubeClient (272)
\* to main's log.Fatalf (62).
getOAuth2Client ==
    /\ pc = "getOAuth2Client"
    /\ CASE credsFile \in {"absent", "unreadable"} ->
              Fatal /\ Log("ReadFile(credentials) failed")
         [] credsFile = "malformed" ->
              Fatal /\ trace' = trace \o <<"ReadFile(credentials)", "ConfigFromJSON failed">>
         [] OTHER ->
              /\ pc' = "getClient"
              /\ trace' = trace \o <<"ReadFile(credentials)", "ConfigFromJSON">>
              /\ UNCHANGED exitCode
    /\ UNCHANGED <<calls, env, dotenv, useJSON, configFile, credsFile, fs, run, cfg, service, savedRun, last>>

\* NewYouTubeClient 275-284 with the OAuth2 http client: NewService may fail,
\* which main turns into exit(1).
FinishOAuth2(tok, built) ==
    IF built
      THEN /\ service' = [mode |-> "oauth2", tok |-> tok]
           /\ pc' = "setup"
           /\ UNCHANGED exitCode
      ELSE /\ Fatal
           /\ UNCHANGED service

\* The test of line 306 made on os.IsNotExist alone: whatever tokenFromFile
\* returns for a file that is there is used.
UseCachedToken_unlessMissing(r) == r.err # "open"

\* getClient 306: `if err != nil` decides between the cached token and the web.
UseCachedToken(r) == r.err = "nil"

\* getClient 304-311 with tokenFromFile 313-323: a token that was read is
\* used as it is; any error of tokenFromFile leads to getTokenFromWeb.
getClient ==
    /\ pc = "getClient"
    /\ LET r == tokenFromFile(cfg.TokenFile)
       IN IF UseCachedToken(r)
            THEN \E built \in BOOLEAN :
                   /\ FinishOAuth2(r.tok, built)
                   /\ trace' = trace \o <<"tokenFromFile", "config.Client">>
                               \o (IF built THEN <<"NewService(HTTPClient)">>
                                   ELSE <<"NewService(HTTPClient) failed">>)
            ELSE /\ pc' = "getTokenFromWeb"
                 /\ Log(IF r.err = "open" THEN "tokenFromFile: open failed"
                        ELSE "tokenFromFile: decode failed")
                 /\ UNCHANGED <<service, exitCode>>
    /\ UNCHANGED <<calls, env, dotenv, useJSON, configFile, credsFile, fs, run, cfg, savedRun, last>>

\* getTokenFromWeb that creates the token file before it asks for the code.
getTokenFromWeb_createsFirst ==
    /\ pc = "getTokenFromWeb"
    /\ pc' = "Scan"
    /\ Log("print authURL")
    /\ fs' = [fs EXCEPT ![cfg.TokenFile] = Truncated]
    /\ UNCHANGED <<calls, env, dotenv, useJSON, configFile, credsFile, run, cfg, service, exitCode, savedRun, last>>

\* getTokenFromWeb 326-328: the authorization URL is printed, then the
\* process blocks in fmt.Scan.
getTokenFromWeb ==
    /\ pc = "getTokenFromWeb"
    /\ pc' = "Scan"
    /\ Log("print authURL")
    /\ UNCHANGED <<calls, env, dotenv, useJSON, configFile, credsFile, fs, run, cfg, service, exitCode, savedRun, last>>

\* getTokenFromWeb 330-333: fmt.Scan returns a code, or an error (log.Fatalf).
Scan ==
    /\ pc = "Scan"
    /\ \E ok \in BOOLEAN :
         IF ok THEN pc' = "Exchange" /\ Log("Scan") /\ UNCHANGED exitCode
               ELSE Fatal /\ Log("Scan failed")
    /\ UNCHANGED <<calls, env, dotenv, useJSON, configFile, credsFile, fs, run, cfg, service, savedRun, last>>

\* getTokenFromWeb 335-339: config.Exchange returns a token, or an error
\* (log.Fatalf). The token is held in service.tok until it is saved.
Exchange ==
    /\ pc = "Exchange"
    /\ \/ \E tok \in Tokens :
            /\ pc' = "saveToken"
            /\ service' = [mode |-> "nil", tok |-> tok]
            /\ Log("Exchange")
            /\ UNCHANGED exitCode
       \/ /\ Fatal
          /\ Log("Exchange failed")
          /\ UNCHANGED service
    /\ UNCHANGED <<calls, env, dotenv, useJSON, configFile, credsFile, fs, run, cfg, savedRun, last>>

\* saveToken opening the file without truncating it: a failed write leaves
\* the old bytes in place.
saveTokenFile_noTruncate(tok, written) ==
    IF written THEN JsonFile(Encode(tok)) ELSE Garbage

\* saveToken 343-351, the file it leaves: os.Create truncates the file, and
\* the error of Encode is dropped, so a failed write leaves the empty file.
saveTokenFile(tok, written) ==
    IF written THEN JsonFile(Encode(tok)) ELSE Truncated

\* saveToken 345-348: only the error of os.Create ends the process.
saveTokenFatal(created, written) == ~created

\* getClient 307-310 after getTokenFromWeb returned: saveToken, then
\* config.Client and NewYouTubeClient 275-284.
saveToken ==
    /\ pc = "saveToken"
    /\ \E created \in BOOLEAN, written \in BOOLEAN, built \in BOOLEAN :
         IF saveTokenFatal(created, written)
           THEN /\ Fatal
                /\ Log(IF created THEN "Encode failed" ELSE "Create failed")
                /\ UNCHANGED <<fs, service, savedRun>>
           ELSE /\ fs' = [fs EXCEPT ![cfg.TokenFile] =
                            IF created THEN saveTokenFile(service.tok, written) ELSE @]
                /\ savedRun' = [savedRun EXCEPT ![cfg.TokenFile] =
                            IF created /\ written THEN run ELSE IF created THEN 0 ELSE @]
                /\ FinishOAuth2(service.tok, built)
                /\ trace' = trace
                     \o (IF created THEN <<"Create">> ELSE <<"Create failed">>)
                     \o (IF created /\ written THEN <<"Encode">> ELSE <<"Encode failed">>)
                     \o <<"config.Client">>
                     \o (IF built THEN <<"NewService(HTTPClient)">>
                         ELSE <<"NewService(HTTPClient) failed">>)
    /\ UNCHANGED <<calls, env, dotenv, useJSON, configFile, credsFile, run, cfg, last>>

\* main.go 65-87: the tools are registered and the server runs on stdio.
Serve ==
    /\ pc = "setup"
    /\ pc' = "serving"
    /\ trace' = trace \o <<"SetupOfficialMCPTools", "Run">>
    /\ UNCHANGED <<calls, env, dotenv, useJSON, configFile, credsFile, fs, run, cfg, service, exitCode, savedRun, last>>

\* main.go 85-88: Run returns nil when the client closes the connection and
\* main ends (exit status 0), or it returns an error (log.Fatalf).
Stop ==
    /\ pc = "serving"
    /\ pc' = "exited"
    /\ \E failed \in BOOLEAN :
         /\ exitCode' = IF failed THEN 1 ELSE 0
         /\ Log(IF failed THEN "Run failed" ELSE "Run returned")
    /\ last' = NoCall
    /\ UNCHANGED <<calls, env, dotenv, useJSON, configFile, credsFile, fs, run, cfg, service, savedRun>>

\* The operator starts the program again, over the files the last run left,
\* in an environment of their choice.
Restart ==
    /\ pc = "exited"
    /\ run < MaxRuns
    /\ run' = run + 1
    /\ env' \in RunEnvironments
    /\ cfg' = NoConfig
    /\ pc' = "load"
    /\ service' = NoService
    /\ trace' = <<>>
    /\ exitCode' = -1
    /\ last' = NoCall
    /\ UNCHANGED <<calls, dotenv, useJSON, configFile, credsFile, fs, savedRun>>

----------------------------------------------------------------------------
(* Go values the handlers work on *)

MaxItems == 2

DefaultMaxResults == 10

\* A nil pointer; every nested part of an upstream item is a pointer.
NilPtr == [nil |-> TRUE]

\* Go error values. fmt.Errorf with %v builds a new plain error whose text is
\* the prefix followed by the text of the error it was given.
NilErr == [isNil |-> TRUE, type |-> "nil", text |-> <<>>]

UpstreamErrors ==
    {[isNil |-> FALSE, type |-> "*url.Error", text |-> <<"dial tcp: timeout">>],
     [isNil |-> FALSE, type |-> "*googleapi.Error", text |-> <<"googleapi: Error 403: quotaExceeded">>]}

Errorf(prefix, e) ==
    [isNil |-> FALSE, type |-> "*errors.errorString", text |-> <<prefix>> \o e.text]

ErrorNew(msg) == [isNil |-> FALSE, type |-> "*errors.errorString", text |-> <<msg>>]

\* A Go slice: `var s []T` is nil until something is appended.
NilSlice == [isNil |-> TRUE, elems |-> <<>>]

SliceAppend(s, x) == [isNil |-> FALSE, elems |-> Append(s.elems, x)]

\* json.MarshalIndent of a slice of maps: a nil slice is marshalled as null,
\* any other slice as an array.
MarshalSlice(s) ==
    IF s.isNil THEN [type |-> "null", value |-> <<>>]
               ELSE [type |-> "array", value |-> s.elems]

\* json.MarshalIndent of a map: always an object; a nil []string inside it is
\* marshalled as null.
MarshalMap(m) == [type |-> "object", value |-> m]

MarshalTags(t) == IF t.isNil THEN "null" ELSE t.elems

----------------------------------------------------------------------------
(* Upstream results *)

Thumbs(medium) == [Medium |-> medium]

FullThumbs == Thumbs([Url |-> "https://i.ytimg.com/m.jpg"])

ThumbVariants == {FullThumbs, Thumbs(NilPtr), NilPtr}

\* youtube.SearchResult
SearchResults ==
    {[Id |-> [VideoId |-> "vid", ChannelId |-> "chan"],
      Snippet |-> [Title |-> "title", Thumbnails |-> t]] : t \in ThumbVariants}
    \cup {[Id |-> NilPtr, Snippet |-> [Title |-> "title", Thumbnails |-> FullThumbs]],
          [Id |-> [VideoId |-> "vid", ChannelId |-> "chan"], Snippet |-> NilPtr]}

\* youtube.Channel
Channels ==
    {[Id |-> "chan", Snippet |-> [Title |-> "title", Thumbnails |-> t],
      Statistics |-> [ViewCount |-> 7]] : t \in ThumbVariants}
    \cup {[Id |-> "chan", Snippet |-> NilPtr, Statistics |-> [ViewCount |-> 7]],
          [Id |-> "chan", Snippet |-> [Title |-> "title", Thumbnails |-> FullThumbs],
           Statistics |-> NilPtr]}

FullVideoSnippet(t, tags) == [Title |-> "title", Thumbnails |-> t, Tags |-> tags]

SomeTags == [isNil |-> FALSE, elems |-> <<"go">>]

\* youtube.Video
Videos ==
    {[Id |-> "vid", Snippet |-> FullVideoSnippet(t, SomeTags),
      Statistics |-> [ViewCount |-> 7], ContentDetails |-> [Duration |-> "PT1M"]]
        : t \in ThumbVariants}
    \cup {[Id |-> "vid", Snippet |-> FullVideoSnippet(FullThumbs, NilSlice),
           Statistics |-> [ViewCount |-> 7], ContentDetails |-> [Duration |-> "PT1M"]],
          [Id |-> "vid", Snippet |-> NilPtr,
           Statistics |-> [ViewCount |-> 7], ContentDetails |-> [Duration |-> "PT1M"]],
          [Id |-> "vid", Snippet |-> FullVideoSnippet(FullThumbs, SomeTags),
           Statistics |-> NilPtr, ContentDetails |-> [Duration |-> "PT1M"]],
          [Id |-> "vid", Snippet |-> FullVideoSnippet(FullThumbs, SomeTags),
           Statistics |-> [ViewCount |-> 7], ContentDetails |-> NilPtr]}

\* youtube.PlaylistItem
PlaylistItems ==
    {[ContentDetails |-> [VideoId |-> "vid"],
      Snippet |-> [Title |-> "title", Thumbnails |-> t]] : t \in ThumbVariants}
    \cup {[ContentDetails |-> NilPtr, Snippet |-> [Title |-> "title", Thumbnails |-> FullThumbs]],
          [ContentDetails |-> [VideoId |-> "vid"], Snippet |-> NilPtr]}

SeqsUpTo(S, n) == UNION {[1..k -> S] : k \in 0..n}

\* What call.Do() returns: an error, or a response with its items.
Responses(S, n) ==
    {[err |-> e, items |-> <<>>] : e \in UpstreamErrors}
    \cup {[err |-> NilErr, items |-> l] : l \in SeqsUpTo(S, n)}

----------------------------------------------------------------------------
(* Upstream Gateway: the five methods of YouTubeClient. Each takes the       *)
(* outcome of its one call.Do() and returns what the method returns, with    *)
(* the requests it sent.                                                     *)

\* SearchVideos that sets the channel filter on every request.
SearchVideos_alwaysFilters(query, maxResults, channelID, resp) ==
    LET req == [resource |-> "search.list", part |-> <<"snippet">>, q |-> query,
                type |-> "video", maxResults |-> maxResults, order |-> "relevance",
                channelId |-> <<channelID>>]
    IN [requests |-> <<req>>,
        err |-> IF resp.err.isNil THEN NilErr ELSE Errorf("error searching videos: ", resp.err),
        items |-> IF resp.err.isNil THEN resp.items ELSE <<>>]

\* SearchVideos 354-371
SearchVideos(query, maxResults, channelID, resp) ==
    LET base == [resource |-> "search.list", part |-> <<"snippet">>, q |-> query,
                 type |-> "video", maxResults |-> maxResults, order |-> "relevance",
                 channelId |-> <<>>]
        req == IF channelID # "" THEN [base EXCEPT !.channelId = <<channelID>>] ELSE base
    IN [requests |-> <<req>>,
        err |-> IF resp.err.isNil THEN NilErr ELSE Errorf("error searching videos: ", resp.err),
        items |-> IF resp.err.isNil THEN resp.items ELSE <<>>]

\* GetChannelInfo that looks every channel up by id, the empty id too.
GetChannelInfo_alwaysById(channelID, resp) ==
    LET req == [resource |-> "channels.list",
                part |-> <<"snippet", "statistics", "contentDetails">>,
                id |-> <<channelID>>,
                mine |-> FALSE]
    IN [requests |-> <<req>>,
        err |-> IF ~resp.err.isNil THEN Errorf("error getting channel info: ", resp.err)
                ELSE IF Len(resp.items) = 0 THEN ErrorNew("channel not found")
                ELSE NilErr,
        items |-> IF resp.err.isNil /\ Len(resp.items) # 0 THEN <<resp.items[1]>> ELSE <<>>]

\* GetChannelInfo 374-393
GetChannelInfo(channelID, resp) ==
    LET req == [resource |-> "channels.list",
                part |-> <<"snippet", "statistics", "contentDetails">>,
                id |-> IF channelID # "" THEN <<channelID>> ELSE <<>>,
                mine |-> channelID = ""]
    IN [requests |-> <<req>>,
        err |-> IF ~resp.err.isNil THEN Errorf("error getting channel info: ", resp.err)
                ELSE IF Len(resp.items) = 0 THEN ErrorNew("channel not found")
                ELSE NilErr,
        items |-> IF resp.err.isNil /\ Len(resp.items) # 0 THEN <<resp.items[1]>> ELSE <<>>]

\* GetVideoDetails that sends its request a second time when it failed.
GetVideoDetails_retries(videoID, resp) ==
    LET req == [resource |-> "videos.list",
                part |-> <<"snippet", "statistics", "contentDetails">>,
                id |-> <<videoID>>]
    IN [requests |-> IF resp.err.isNil THEN <<req>> ELSE <<req, req>>,
        err |-> IF ~resp.err.isNil THEN Errorf("error getting video details: ", resp.err)
                ELSE IF Len(resp.items) = 0 THEN ErrorNew("video not found")
                ELSE NilErr,
        items |-> IF resp.err.isNil /\ Len(resp.items) # 0 THEN <<resp.items[1]>> ELSE <<>>]

\* GetVideoDetails 396-410
GetVideoDetails(videoID, resp) ==
    LET req == [resource |-> "videos.list",
                part |-> <<"snippet", "statistics", "contentDetails">>,
                id |-> <<videoID>>]
    IN [requests |-> <<req>>,
        err |-> IF ~resp.err.isNil THEN Errorf("error getting video details: ", resp.err)
                ELSE IF Len(resp.items) = 0 THEN ErrorNew("video not found")
                ELSE NilErr,
        items |-> IF resp.err.isNil /\ Len(resp.items) # 0 THEN <<resp.items[1]>> ELSE <<>>]

\* GetPlaylistItems with the existence check of its two neighbours.
GetPlaylistItems_existenceCheck(playlistID, maxResults, resp) ==
    LET req == [resource |-> "playlistItems.list", part |-> <<"snippet", "contentDetails">>,
                playlistId |-> playlistID, maxResults |-> maxResults]
    IN [requests |-> <<req>>,
        err |-> IF ~resp.err.isNil THEN Errorf("error getting playlist items: ", resp.err)
                ELSE IF Len(resp.items) = 0 THEN ErrorNew("playlist not found")
                ELSE NilErr,
        items |-> IF resp.err.isNil THEN resp.items ELSE <<>>]

\* GetPlaylistItems 413-424
GetPlaylistItems(playlistID, maxResults, resp) ==
    LET req == [resource |-> "playlistItems.list", part |-> <<"snippet", "contentDetails">>,
                playlistId |-> playlistID, maxResults |-> maxResults]
    IN [requests |-> <<req>>,
        err |-> IF resp.err.isNil THEN NilErr
                ELSE Errorf("error getting playlist items: ", resp.err),
        items |-> IF resp.err.isNil THEN resp.items ELSE <<>>]

\* SearchChannels 427-440
SearchChannels(query, maxResults, resp) ==
    LET req == [resource |-> "search.list", part |-> <<"snippet">>, q |-> query,
                type |-> "channel", maxResults |-> maxResults, order |-> "relevance",
                channelId |-> <<>>]
    IN [requests |-> <<req>>,
        err |-> IF resp.err.isNil THEN NilErr ELSE Errorf("error searching channels: ", resp.err),
        items |-> IF resp.err.isNil THEN resp.items ELSE <<>>]

----------------------------------------------------------------------------
(* Tool Dispatch Table and Response Projector: the five handlers of          *)
(* SetupOfficialMCPTools.                                                    *)

\* The typed argument structs (11-38) as encoding/json fills them: a key that
\* is absent leaves the field at its zero value.
StringField(raw, k) == IF k \in DOMAIN raw THEN raw[k] ELSE ""

IntField(raw, k) == IF k \in DOMAIN raw THEN raw[k] ELSE 0

\* The default applied to every value that is not positive.
ApplyDefault_nonPositive(maxResults) ==
    IF maxResults <= 0 THEN DefaultMaxResults ELSE maxResults

\* if args.MaxResults == 0 { args.MaxResults = 10 }   (47-49, 158-160, 197-199)
ApplyDefault(maxResults) ==
    IF maxResults = 0 THEN DefaultMaxResults ELSE maxResults

\* item.Snippet.Thumbnails.Medium.Url: a nil pointer on the way panics.
MediumUrlPanics(snippet) ==
    \/ snippet = NilPtr
    \/ snippet.Thumbnails = NilPtr
    \/ snippet.Thumbnails.Medium = NilPtr

Panic == [panic |-> TRUE, rec |-> <<>>]

Projected(r) == [panic |-> FALSE, rec |-> r]

\* search_videos 58-66
ProjectVideoResult(item) ==
    IF item.Id = NilPtr \/ MediumUrlPanics(item.Snippet) THEN Panic
    ELSE Projected([video_id |-> item.Id.VideoId, title |-> item.Snippet.Title,
                    thumbnail_url |-> item.Snippet.Thumbnails.Medium.Url])

\* search_channels 208-214
ProjectChannelResult(item) ==
    IF item.Id = NilPtr \/ MediumUrlPanics(item.Snippet) THEN Panic
    ELSE Projected([channel_id |-> item.Id.ChannelId, title |-> item.Snippet.Title,
                    thumbnail_url |-> item.Snippet.Thumbnails.Medium.Url])

\* get_playlist_items 169-178
ProjectPlaylistItem(item) ==
    IF item.ContentDetails = NilPtr \/ MediumUrlPanics(item.Snippet) THEN Panic
    ELSE Projected([video_id |-> item.ContentDetails.VideoId, title |-> item.Snippet.Title,
                    thumbnail_url |-> item.Snippet.Thumbnails.Medium.Url])

\* get_channel_info 90-101
ProjectChannel(channel) ==
    IF MediumUrlPanics(channel.Snippet) \/ channel.Statistics = NilPtr THEN Panic
    ELSE Projected([channel_id |-> channel.Id, title |-> channel.Snippet.Title,
                    thumbnail_url |-> channel.Snippet.Thumbnails.Medium.Url,
                    view_count |-> channel.Statistics.ViewCount])

\* get_video_details 123-141
ProjectVideo(video) ==
    IF \/ video.Statistics = NilPtr
       \/ MediumUrlPanics(video.Snippet)
       \/ video.ContentDetails = NilPtr
    THEN Panic
    ELSE Projected([video_id |-> video.Id, title |-> video.Snippet.Title,
                    duration |-> video.ContentDetails.Duration,
                    thumbnail_url |-> video.Snippet.Thumbnails.Medium.Url,
                    view_count |-> video.Statistics.ViewCount,
                    tags |-> MarshalTags(video.Snippet.Tags)])

\* for _, item := range results { ...; videos = append(videos, video) }
\* The body of the loop of each list tool.
ProjectItem(tool, item) ==
    CASE tool = "search_videos"      -> ProjectVideoResult(item)
      [] tool = "get_playlist_items" -> ProjectPlaylistItem(item)
      [] tool = "search_channels"    -> ProjectChannelResult(item)

RECURSIVE ProjectLoop(_, _, _, _)
ProjectLoop(tool, items, i, acc) ==
    IF i > Len(items) THEN [panic |-> FALSE, slice |-> acc]
    ELSE IF ProjectItem(tool, items[i]).panic THEN [panic |-> TRUE, slice |-> acc]
    ELSE ProjectLoop(tool, items, i + 1, SliceAppend(acc, ProjectItem(tool, items[i]).rec))

\* What a handler hands back to the SDK: a CallToolResult with text content,
\* an error, or a panic that leaves the handler.
Success(json) == [kind |-> "result", text |-> json, err |-> NilErr]

Failure(err) == [kind |-> "error", text |-> <<>>, err |-> err]

Panicked == [kind |-> "panic", text |-> <<>>, err |-> NilErr]

ListResult(p) == IF p.panic THEN Panicked ELSE Success(MarshalSlice(p.slice))

OneResult(p) == IF p.panic THEN Panicked ELSE Success(MarshalMap(p.rec))

\* What is recorded of a call: the arguments received, the gateway calls made,
\* the upstream requests sent, what the upstream answered, and the outcome.
CallRecord(tool, raw, resp, gateway, g, result) ==
    [tool |-> tool, raw |-> raw, gateway |-> gateway, requests |-> g.requests,
     resp |-> resp, result |-> result]

\* search_videos handler 46-78
search_videos_handler(raw, resp) ==
    LET query == StringField(raw, "query")
        maxResults == ApplyDefault(IntField(raw, "max_results"))
        channelID == StringField(raw, "channel_id")
        g == SearchVideos(query, maxResults, channelID, resp)
    IN CallRecord("search_videos", raw, resp,
         <<[op |-> "SearchVideos", query |-> query, maxResults |-> maxResults,
            channelID |-> channelID]>>, g,
         IF ~g.err.isNil THEN Failure(Errorf("failed to search videos: ", g.err))
         ELSE ListResult(ProjectLoop("search_videos", g.items, 1, NilSlice)))

\* get_channel_info handler 84-111
get_channel_info_handler(raw, resp) ==
    LET channelID == StringField(raw, "channel_id")
        g == GetChannelInfo(channelID, resp)
    IN CallRecord("get_channel_info", raw, resp,
         <<[op |-> "GetChannelInfo", channelID |-> channelID]>>, g,
         IF ~g.err.isNil THEN Failure(Errorf("failed to get channel info: ", g.err))
         ELSE OneResult(ProjectChannel(g.items[1])))

\* get_video_details handler 117-151
get_video_details_handler(raw, resp) ==
    LET videoID == StringField(raw, "video_id")
        g == GetVideoDetails(videoID, resp)
    IN CallRecord("get_video_details", raw, resp,
         <<[op |-> "GetVideoDetails", videoID |-> videoID]>>, g,
         IF ~g.err.isNil THEN Failure(Errorf("failed to get video details: ", g.err))
         ELSE OneResult(ProjectVideo(g.items[1])))

\* get_playlist_items handler 157-190
get_playlist_items_handler(raw, resp) ==
    LET playlistID == StringField(raw, "playlist_id")
        maxResults == ApplyDefault(IntField(raw, "max_results"))
        g == GetPlaylistItems(playlistID, maxResults, resp)
    IN CallRecord("get_playlist_items", raw, resp,
         <<[op |-> "GetPlaylistItems", playlistID |-> playlistID,
            maxResults |-> maxResults]>>, g,
         IF ~g.err.isNil THEN Failure(Errorf("failed to get playlist items: ", g.err))
         ELSE ListResult(ProjectLoop("get_playlist_items", g.items, 1, NilSlice)))

\* search_channels handler 196-226
search_channels_handler(raw, resp) ==
    LET query == StringField(raw, "query")
        maxResults == ApplyDefault(IntField(raw, "max_results"))
        g == SearchChannels(query, maxResults, resp)
    IN CallRecord("search_channels", raw, resp,
         <<[op |-> "SearchChannels", query |-> query, maxResults |-> maxResults]>>, g,
         IF ~g.err.isNil THEN Failure(Errorf("failed to search channels: ", g.err))
         ELSE ListResult(ProjectLoop("search_channels", g.items, 1, NilSlice)))

\* A handler that writes the token of the client back to the token file.
Handled_persistsToken(rec) ==
    /\ last' = rec
    /\ IF rec.result.kind = "panic"
         THEN pc' = "exited" /\ exitCode' = 2
         ELSE UNCHANGED <<pc, exitCode>>
    /\ fs' = [fs EXCEPT ![cfg.TokenFile] = JsonFile(Encode(service.tok))]
    /\ UNCHANGED <<calls, env, dotenv, useJSON, configFile, credsFile, run, cfg, service, trace, savedRun>>

\* A handler that answers an upstream failure by switching the client to
\* OAuth2.
Handled_fallsBackToOAuth2(rec) ==
    /\ last' = rec
    /\ IF rec.result.kind = "panic"
         THEN pc' = "exited" /\ exitCode' = 2
         ELSE UNCHANGED <<pc, exitCode>>
    /\ service' = IF rec.result.kind = "error"
                    THEN [service EXCEPT !.mode = "oauth2"] ELSE service
    /\ UNCHANGED <<calls, env, dotenv, useJSON, configFile, credsFile, fs, run, cfg, trace, savedRun>>

\* The handler has run to its end: its result waits to be sent. The handlers
\* recover from nothing, so a nil dereference in one brings the process down
\* (exit status 2).
Handled(rec) ==
    /\ last' = rec
    /\ IF rec.result.kind = "panic"
         THEN pc' = "exited" /\ exitCode' = 2
         ELSE UNCHANGED <<pc, exitCode>>
    /\ UNCHANGED <<calls, env, dotenv, useJSON, configFile, credsFile, fs, run, cfg, service, trace, savedRun>>

\* A tools/call request arrives while the server runs and no call is pending.
Accepting == pc = "serving" /\ last = NoCall

search_videos(In, R) ==
    /\ Accepting
    /\ \E raw \in In, resp \in R : Handled(search_videos_handler(raw, resp))

\* call.Mine(true) asks for the channel of the identity the request carries.
\* Only an OAuth2 token carries one: a request made with just an API key has
\* no channel to resolve, and is answered with an error or with no items.
UpstreamAnswers(mode, req, resp) ==
    (req.mine /\ mode = "apikey") => (~resp.err.isNil \/ resp.items = <<>>)

get_channel_info(In, R) ==
    /\ Accepting
    /\ \E raw \in In, resp \in R :
         /\ UpstreamAnswers(service.mode, get_channel_info_handler(raw, resp).requests[1], resp)
         /\ Handled(get_channel_info_handler(raw, resp))

get_video_details(In, R) ==
    /\ Accepting
    /\ \E raw \in In, resp \in R : Handled(get_video_details_handler(raw, resp))

get_playlist_items(In, R) ==
    /\ Accepting
    /\ \E raw \in In, resp \in R : Handled(get_playlist_items_handler(raw, resp))

search_channels(In, R) ==
    /\ Accepting
    /\ \E raw \in In, resp \in R : Handled(search_channels_handler(raw, resp))

\* The SDK sends the pending result (or error) to the client; the handler's
\* locals are gone and the server takes the next call.
Respond ==
    /\ pc = "serving"
    /\ last # NoCall
    /\ last' = NoCall
    /\ UNCHANGED <<calls, env, dotenv, useJSON, configFile, credsFile, fs, run, cfg, pc, service, trace, exitCode, savedRun>>

----------------------------------------------------------------------------
(* Handlers side by side: the server runs each tools/call in a goroutine of  *)
(* its own. A handler decodes its arguments and has its gateway method send  *)
(* the request (Dispatch), waits in call.Do(), and goes on when the answer   *)
(* is there (Return); its result is then sent (Reply).                       *)

HandlerOf(tool, raw, resp) ==
    CASE tool = "search_videos"      -> search_videos_handler(raw, resp)
      [] tool = "get_channel_info"   -> get_channel_info_handler(raw, resp)
      [] tool = "get_video_details"  -> get_video_details_handler(raw, resp)
      [] tool = "get_playlist_items" -> get_playlist_items_handler(raw, resp)
      [] tool = "search_channels"    -> search_channels_handler(raw, resp)

\* What call.Do() of each tool's gateway method can return, for up to n items.
ResponsesOf(tool, n) ==
    CASE tool \in {"search_videos", "search_channels"} -> Responses(SearchResults, n)
      [] tool = "get_channel_info"   -> Responses(Channels, n)
      [] tool = "get_video_details"  -> Responses(Videos, n)
      [] tool = "get_playlist_items" -> Responses(PlaylistItems, n)

\* A handler starts in a free slot and blocks in call.Do().
Dispatch(Calls) ==
    /\ pc = "serving"
    /\ \E k \in Slots, c \in Calls :
         /\ calls[k] = Idle
         /\ calls' = [calls EXCEPT ![k] = [stage |-> "waiting", tool |-> c.tool, raw |-> c.raw]]
    /\ UNCHANGED <<env, dotenv, useJSON, configFile, credsFile, fs, run, cfg, pc, service, trace,
                   exitCode, savedRun, last>>

\* The slot of a handler that has returned: the handler worked on its own
\* locals only.
Finished(k, rec) == [stage |-> "done", rec |-> rec]

\* call.Do() of one waiting handler returns and the handler runs to its end;
\* a nil dereference in it brings the whole process down, the other handlers
\* with it.
Return(n) ==
    /\ pc = "serving"
    /\ \E k \in Slots :
         /\ calls[k].stage = "waiting"
         /\ \E resp \in ResponsesOf(calls[k].tool, n) :
              LET rec == HandlerOf(calls[k].tool, calls[k].raw, resp)
              IN /\ calls[k].tool = "get_channel_info" =>
                      UpstreamAnswers(service.mode, rec.requests[1], resp)
                 /\ calls' = [calls EXCEPT ![k] = Finished(k, rec)]
                 /\ IF rec.result.kind = "panic"
                      THEN pc' = "exited" /\ exitCode' = 2
                      ELSE UNCHANGED <<pc, exitCode>>
    /\ UNCHANGED <<env, dotenv, useJSON, configFile, credsFile, fs, run, cfg, service, trace,
                   savedRun, last>>

\* The result of a handler that has returned is sent; its slot is free again.
Reply ==
    /\ pc = "serving"
    /\ \E k \in Slots :
         /\ calls[k].stage = "done"
         /\ calls' = [calls EXCEPT ![k] = Idle]
    /\ UNCHANGED <<env, dotenv, useJSON, configFile, credsFile, fs, run, cfg, pc, service, trace,
                   exitCode, savedRun, last>>

----------------------------------------------------------------------------
(* The arguments clients send, as JSON objects (a key may be absent) *)

NoArgs == <<>>

MaxResultsValues == {-1, 0, 5, 50}

MaxResultsArgs == {NoArgs} \cup {[max_results |-> n] : n \in MaxResultsValues}

ChannelArgs == {NoArgs, [channel_id |-> ""], [channel_id |-> "UC1"]}

SearchVideosInputs ==
    {[query |-> "golang tutorial"] @@ m @@ c : m \in MaxResultsArgs, c \in ChannelArgs}

GetChannelInfoInputs == ChannelArgs

GetVideoDetailsInputs == {[video_id |-> "dQw4"]}

GetPlaylistItemsInputs == {[playlist_id |-> "PL1"] @@ m : m \in MaxResultsArgs}

SearchChannelsInputs == {[query |-> "programming"] @@ m : m \in MaxResultsArgs}

\* The calls the whole-lifecycle specification draws from: one value of each
\* argument shape, responses of at most one item.
FewMaxResultsArgs == {NoArgs, [max_results |-> 5]}

FewSearchVideosInputs == {[query |-> "golang tutorial"] @@ m : m \in FewMaxResultsArgs}

FewGetPlaylistItemsInputs == {[playlist_id |-> "PL1"] @@ m : m \in FewMaxResultsArgs}

FewSearchChannelsInputs == {[query |-> "programming"] @@ m : m \in FewMaxResultsArgs}

----------------------------------------------------------------------------
(* Specifications *)

Startup ==
    \/ LoadConfiguration
    \/ Validate
    \/ NewYouTubeClient
    \/ getOAuth2Client
    \/ getClient
    \/ getTokenFromWeb
    \/ Scan
    \/ Exchange
    \/ saveToken

\* The whole life of the program over its files, run after run.
Next ==
    \/ Startup
    \/ Serve
    \/ search_videos(FewSearchVideosInputs, Responses(SearchResults, 1))
    \/ get_channel_info(GetChannelInfoInputs, Responses(Channels, 1))
    \/ get_video_details(GetVideoDetailsInputs, Responses(Videos, 1))
    \/ get_playlist_items(FewGetPlaylistItemsInputs, Responses(PlaylistItems, 1))
    \/ search_channels(FewSearchChannelsInputs, Responses(SearchResults, 1))
    \/ Respond
    \/ Stop
    \/ Restart

Spec == Init /\ [][Next]_vars

\* One run from a first start (no token file yet), with every argument shape
\* and every upstream result of up to MaxItems items.
InitTools ==
    /\ Init
    /\ credsFile = "valid"
    /\ fs = [p \in TokenPaths |-> Absent]
    /\ env["TOKEN_FILE"] = ""

NextTools ==
    \/ Startup
    \/ Serve
    \/ search_videos(SearchVideosInputs, Responses(SearchResults, MaxItems))
    \/ get_channel_info(GetChannelInfoInputs, Responses(Channels, MaxItems))
    \/ get_video_details(GetVideoDetailsInputs, Responses(Videos, MaxItems))
    \/ get_playlist_items(GetPlaylistItemsInputs, Responses(PlaylistItems, MaxItems))
    \/ search_channels(SearchChannelsInputs, Responses(SearchResults, MaxItems))
    \/ Respond

SpecTools == InitTools /\ [][NextTools]_vars

\* The calls that meet in the server: a search, the caller's own channel, a
\* playlist.
ConcurrentCalls ==
    {[tool |-> "search_videos", raw |-> [query |-> "golang tutorial"]],
     [tool |-> "get_channel_info", raw |-> NoArgs],
     [tool |-> "get_playlist_items", raw |-> [playlist_id |-> "PL1", max_results |-> 5]]}

\* One run from a first start, with up to MaxCalls handlers at a time.
NextConcurrent ==
    \/ Startup
    \/ Serve
    \/ Dispatch(ConcurrentCalls)
    \/ Return(1)
    \/ Reply

SpecConcurrent == InitTools /\ [][NextConcurrent]_vars

\* What the environment and the config file set each option to, where they
\* set it.
EnvValue(f) ==
    CASE f = "YouTubeAPIKey"         -> "AIza"
      [] f = "OAuth2CredentialsFile" -> "env_secret.json"
      [] f = "TokenFile"             -> "alt.json"
      [] f = "ServerName"            -> "env-server"
      [] f = "ServerVersion"         -> "2.0.0"
      [] f = "ServerDescription"     -> "set in the environment"

JsonValue(f) ==
    CASE f = "YouTubeAPIKey"         -> "AIzaFile"
      [] f = "OAuth2CredentialsFile" -> "file_secret.json"
      [] f = "TokenFile"             -> "file_token.json"
      [] f = "ServerName"            -> "file-server"
      [] f = "ServerVersion"         -> "3.0.0"
      [] f = "ServerDescription"     -> "set in the config file"

\* Every environment that sets some of the six variables.
Environments ==
    {[v \in EnvVars |-> IF \E f \in F : EnvVar(f) = v
                          THEN EnvValue(CHOOSE f \in F : EnvVar(f) = v) ELSE ""]
       : F \in SUBSET Fields}

\* No .env file, or one that sets the API key and the token path.
DotEnvs ==
    {NoDotEnv, Environ([YOUTUBE_API_KEY |-> "AIzaDotEnv", TOKEN_FILE |-> "dotenv_token.json"])}

\* No config file, one that cannot be read or parsed, and every JSON object
\* that sets some of the six options.
ConfigFiles ==
    {NoConfigFile, [kind |-> "unreadable", obj |-> <<>>], [kind |-> "garbage", obj |-> <<>>]}
    \cup {[kind |-> "json", obj |-> [t \in {JsonTag(f) : f \in F} |-> JsonValue(FieldOf(t))]]
            : F \in SUBSET Fields}

\* The start of one run up to the validated configuration, in every
\* environment and over every config file, with and without -json-config.
InitConfig ==
    /\ env \in Environments
    /\ dotenv \in DotEnvs
    /\ useJSON \in BOOLEAN
    /\ configFile \in ConfigFiles
    /\ credsFile \in {"absent", "valid"}
    /\ fs = [p \in TokenPaths |-> Absent]
    /\ Started

NextConfig ==
    \/ LoadConfiguration
    \/ Validate

SpecConfig == InitConfig /\ [][NextConfig]_vars

----------------------------------------------------------------------------
(* Properties of the credential broker *)

\* The steps that belong to the OAuth2 path, as they appear in trace.
CredentialSteps == {"ReadFile(credentials)", "ReadFile(credentials) failed"}

TokenReadSteps == {"tokenFromFile", "tokenFromFile: open failed", "tokenFromFile: decode failed"}

PromptSteps == {"print authURL", "Scan", "Scan failed"}

TokenWriteSteps == {"Create", "Create failed", "Encode", "Encode failed"}

OAuth2Steps == CredentialSteps \cup TokenReadSteps \cup PromptSteps \cup TokenWriteSteps

AnyOf(S) == \E i \in 1..Len(trace) : trace[i] \in S

\* NewYouTubeClient was called in this run and has passed its API-key step.
PastAPIKeyStep ==
    /\ pc \notin {"load", "main", "NewYouTubeClient"}
    /\ ~Happened("Failed to load configuration")
    /\ ~Happened("exit: no credentials")

\* C1: within NewYouTubeClient the OAuth2 path is entered exactly when the
\* API key is empty or building the service with it failed; when the key is
\* non-empty and the service was built with it, the handle is in API-key mode
\* and no credentials read, token read, prompt or token write has happened,
\* whatever the state of the credentials file.
C1_OAuth2OnlyWithoutKeyService ==
    PastAPIKeyStep =>
        /\ Happened("getOAuth2Client")
             <=> (cfg.YouTubeAPIKey = "" \/ Happened("NewService(APIKey) failed"))
        /\ AnyOf(OAuth2Steps) => Happened("getOAuth2Client")
        /\ (cfg.YouTubeAPIKey # "" /\ Happened("NewService(APIKey)"))
             => service.mode = "apikey" /\ ~AnyOf(OAuth2Steps)

\* C1 witness: an API key and a valid credentials file with a cached token are
\* all there, and the server serves in API-key mode.
C1_Witness ==
    /\ pc = "serving"
    /\ cfg.YouTubeAPIKey # ""
    /\ credsFile = "valid"
    /\ fs[cfg.TokenFile].kind = "json"
    /\ service.mode = "apikey"
    /\ trace = <<"NewService(APIKey)", "SetupOfficialMCPTools", "Run">>

\* This run went into getClient with the token file an earlier run's
\* saveToken wrote, and has left getClient.
ReusesSavedToken ==
    /\ Happened("ConfigFromJSON")
    /\ pc # "getClient"
    /\ savedRun[cfg.TokenFile] # 0
    /\ savedRun[cfg.TokenFile] < run

\* C2: once a run has exchanged a code and written the token file, every
\* later run in OAuth2 mode with that token path reads the file, accepts it
\* as it is (expired or not) and builds the client from it: no authorization
\* URL, no code read, no second write; the token it holds is the one that was
\* exchanged, field for field.
C2_SavedTokenReused ==
    ReusesSavedToken =>
        /\ Happened("tokenFromFile")
        /\ ~AnyOf(PromptSteps \cup TokenWriteSteps \cup {"Exchange", "Exchange failed"})
        /\ fs[cfg.TokenFile].kind = "json"
        /\ service.mode = "oauth2" =>
             /\ service.tok \in Tokens
             /\ fs[cfg.TokenFile] = JsonFile(Encode(service.tok))

\* C2 witness: the second run serves with the expired, refresh-less token the
\* first run saved.
C2_Witness ==
    /\ ReusesSavedToken
    /\ pc = "serving"
    /\ service.mode = "oauth2"
    /\ service.tok.expiry = "past"
    /\ service.tok.refresh_token = ""

Index(e) == CHOOSE i \in 1..Len(trace) : trace[i] = e

Before(a, b) == Happened(a) /\ Happened(b) /\ Index(a) < Index(b)

\* C3: in OAuth2 mode with no cached token the URL is printed, the code is
\* read, it is exchanged, the token is persisted, and only then the client is
\* returned: whenever this run holds an OAuth2 client after finding no token
\* file, the steps are in trace in that order and the token file holds the
\* token the client was built from.
C3_ClientOnlyAfterTokenPersisted ==
    (Happened("tokenFromFile: open failed") /\ service.mode = "oauth2") =>
        /\ Before("print authURL", "Scan")
        /\ Before("Scan", "Exchange")
        /\ Before("Exchange", "Create")
        /\ Before("Create", "config.Client")
        /\ fs[cfg.TokenFile] = JsonFile(Encode(service.tok))

AcquisitionFailures ==
    {"ReadFile(credentials) failed", "ConfigFromJSON failed", "tokenFromFile: decode failed",
     "Scan failed", "Exchange failed", "Create failed", "Encode failed"}

\* C4: after any failure during OAuth2 credential acquisition (credentials
\* file, reading a cached token that is there, reading the code, the exchange,
\* persisting the token) the run ends with a nonzero exit and never registers
\* the tools or serves; no step is made after the failed one.
C4_AcquisitionFailureIsFatal ==
    AnyOf(AcquisitionFailures) =>
        /\ ~Happened("SetupOfficialMCPTools")
        /\ ~Happened("Run")
        /\ pc \in {"setup", "serving"} => FALSE
        /\ pc = "exited" => exitCode = 1

----------------------------------------------------------------------------
(* Properties of the tool handlers *)

ListTools == {"search_videos", "get_playlist_items", "search_channels"}

OneTools == {"get_channel_info", "get_video_details"}

\* The upstream call of the pending tool call succeeded, with n items.
UpstreamGave(n) == last # NoCall /\ last.resp.err.isNil /\ Len(last.resp.items) = n

\* C6: in search_videos, get_playlist_items and search_channels a max_results
\* that is 0 or absent reaches the gateway method and the upstream request as
\* 10; any other value reaches both unchanged.
C6_MaxResultsDefault ==
    last.tool \in ListTools =>
        LET given == IF "max_results" \in DOMAIN last.raw THEN last.raw.max_results ELSE 0
            effective == IF given = 0 THEN 10 ELSE given
        IN /\ Len(last.gateway) = 1
           /\ last.gateway[1].maxResults = effective
           /\ last.requests[1].maxResults = effective

\* C6 witness: get_playlist_items without max_results asks the upstream for 10
\* items.
C6_Witness ==
    /\ last.tool = "get_playlist_items"
    /\ "max_results" \notin DOMAIN last.raw
    /\ last.requests[1].maxResults = 10
    /\ last.result.kind = "result"

\* The error the same call returns when the upstream request fails with e.
UpstreamFailureOf(call, e) ==
    LET failed == [err |-> e, items |-> <<>>]
    IN IF call.tool = "get_video_details"
         THEN get_video_details_handler(call.raw, failed).result.err
         ELSE get_channel_info_handler(call.raw, failed).result.err

\* C7 as the specification states it: with zero items from a successful
\* upstream call get_video_details and get_channel_info fail with an error of
\* a kind of its own, another kind than the error of an upstream failure, and
\* get_playlist_items succeeds.
C7_NotFoundIsDistinctKind ==
    UpstreamGave(0) =>
        /\ last.tool \in OneTools =>
             /\ last.result.kind = "error"
             /\ \A e \in UpstreamErrors :
                  last.result.err.type # UpstreamFailureOf(last, e).type
        /\ last.tool = "get_playlist_items" => last.result.kind = "result"

NotFoundText(tool) ==
    IF tool = "get_video_details"
      THEN <<"failed to get video details: ", "video not found">>
      ELSE <<"failed to get channel info: ", "channel not found">>

\* C7 amended: with zero items from a successful upstream call
\* get_video_details and get_channel_info fail, never succeed with an empty
\* record; the failure is a plain error of the same kind as the error of an
\* upstream failure, told apart from it only by its text ("video not found",
\* "channel not found"); get_playlist_items succeeds with no error.
C7_NotFoundIsPlainError ==
    UpstreamGave(0) =>
        /\ last.tool \in OneTools =>
             /\ last.result.kind = "error"
             /\ last.result.err.text = NotFoundText(last.tool)
             /\ \A e \in UpstreamErrors :
                  /\ last.result.err.type = UpstreamFailureOf(last, e).type
                  /\ last.result.err.text # UpstreamFailureOf(last, e).text
        /\ last.tool = "get_playlist_items" =>
             /\ last.result.kind = "result"
             /\ last.result.err.isNil

\* C7 witness: get_video_details of an unknown id has failed with "video not
\* found".
C7_Witness ==
    /\ UpstreamGave(0)
    /\ last.tool = "get_video_details"
    /\ last.result.kind = "error"
    /\ last.result.err.text[2] = "video not found"

\* C8: projection is total: whenever the upstream call succeeded (with an item
\* to project, for the two single-entity tools), the handler returns a success
\* result, whatever nested part of an item is missing.
C8_ProjectionTotal ==
    (/\ last # NoCall
     /\ last.resp.err.isNil
     /\ last.tool \in OneTools => Len(last.resp.items) > 0)
        => last.result.kind = "result"

\* C9: a successful call of a search or listing tool returns a JSON array,
\* also for zero items, and a successful call of get_channel_info or
\* get_video_details returns a JSON object.
C9_ArrayOrObject ==
    (last # NoCall /\ last.result.kind = "result") =>
        /\ last.tool \in ListTools => last.result.text.type = "array"
        /\ last.tool \in OneTools => last.result.text.type = "object"

----------------------------------------------------------------------------
(* Properties of the gateway's requests *)

\* C11: GetChannelInfo with an empty channel id sends a lookup of the caller's
\* own channel (mine, no id) and with a non-empty id a lookup by that id (no
\* mine). With an empty id under OAuth2 mode, when the upstream answers with
\* the user's channel, GetChannelInfo returns that channel; under API-key mode
\* (a valid credentials file may be configured as well) GetChannelInfo returns
\* an error and the tool call a failure, never a success.
C11_MineOrById ==
    last.tool = "get_channel_info" =>
        LET channelID == StringField(last.raw, "channel_id")
            g == GetChannelInfo(channelID, last.resp)
        IN /\ last.requests = g.requests
           /\ Len(last.requests) = 1
           /\ channelID = "" => (last.requests[1].mine /\ last.requests[1].id = <<>>)
           /\ channelID # "" => (~last.requests[1].mine /\ last.requests[1].id = <<channelID>>)
           /\ (channelID = "" /\ service.mode = "oauth2" /\ UpstreamGave(1)) =>
                (g.err.isNil /\ g.items = <<last.resp.items[1]>>)
           /\ (channelID = "" /\ service.mode = "apikey") =>
                (~g.err.isNil /\ g.items = <<>> /\ last.result.kind = "error")

\* C11 witness: with an API key and a valid credentials file both configured,
\* get_channel_info without a channel id asked for the caller's own channel,
\* got no items and failed with "channel not found".
C11_Witness ==
    /\ last.tool = "get_channel_info"
    /\ cfg.YouTubeAPIKey # ""
    /\ credsFile = "valid"
    /\ service.mode = "apikey"
    /\ StringField(last.raw, "channel_id") = ""
    /\ last.requests[1].mine
    /\ UpstreamGave(0)
    /\ last.result.kind = "error"
    /\ last.result.err.text[2] = "channel not found"

\* The limit a list tool works with: max_results as given, 10 for 0 or absent.
EffectiveLimit(raw) ==
    IF IntField(raw, "max_results") = 0 THEN 10 ELSE IntField(raw, "max_results")

\* C12: the one upstream request of search_videos has type "video" and order
\* "relevance", that of search_channels type "channel" and order "relevance",
\* both with the query and the (defaulted) limit of the call; the request of
\* search_videos carries a channel filter if and only if channel_id is
\* non-empty, and the filter is then channel_id; search_channels never sets one.
C12_SearchRequestShape ==
    /\ last.tool \in {"search_videos", "search_channels"} =>
         /\ Len(last.requests) = 1
         /\ last.requests[1].resource = "search.list"
         /\ last.requests[1].order = "relevance"
         /\ last.requests[1].q = StringField(last.raw, "query")
         /\ last.requests[1].maxResults = EffectiveLimit(last.raw)
    /\ last.tool = "search_videos" =>
         /\ last.requests[1].type = "video"
         /\ (last.requests[1].channelId # <<>>) <=> (StringField(last.raw, "channel_id") # "")
         /\ last.requests[1].channelId # <<>> =>
              last.requests[1].channelId = <<last.raw.channel_id>>
    /\ last.tool = "search_channels" =>
         /\ last.requests[1].type = "channel"
         /\ last.requests[1].channelId = <<>>

\* C12 witness: a search_videos call narrowed to channel UC1, without
\* max_results: its request filters on UC1 and asks for 10 videos.
C12_Witness ==
    /\ last.tool = "search_videos"
    /\ last.raw.query = "golang tutorial"
    /\ "max_results" \notin DOMAIN last.raw
    /\ "channel_id" \in DOMAIN last.raw
    /\ last.raw.channel_id = "UC1"
    /\ last.requests[1].channelId = <<"UC1">>
    /\ last.requests[1].type = "video"
    /\ last.requests[1].maxResults = 10

----------------------------------------------------------------------------
(* Properties of configuration loading *)

\* Option f is set in the process environment.
SetInEnv(f) == env[EnvVar(f)] # ""

\* Option f is set in the JSON config file the run was told to read.
SetInFile(f) ==
    /\ useJSON
    /\ configFile.kind = "json"
    /\ JsonTag(f) \in DOMAIN configFile.obj

\* Option f is set in the .env file, in a run that reads it.
SetInDotEnv(f) == ~useJSON /\ dotenv[EnvVar(f)] # ""

\* The configuration has just been loaded.
JustLoaded == pc = "main"

\* The documented default of each option; the API key has none.
DocumentedDefault(f) ==
    CASE f = "YouTubeAPIKey"         -> ""
      [] f = "OAuth2CredentialsFile" -> "client_secret.json"
      [] f = "TokenFile"             -> "token.json"
      [] f = "ServerName"            -> "youtube-mcp-server"
      [] f = "ServerVersion"         -> "1.0.0"
      [] f = "ServerDescription"     ->
           "YouTube Data API v3 MCP Server for video search, channel info, and more"

\* C13 as the specification states it: for each of the six options, when the
\* option is set in the JSON config file and in the environment the loaded
\* configuration holds the environment's value; when it is set nowhere,
\* oauth2_credentials_file is client_secret.json and token_file is token.json.
C13_EnvironmentOverridesFile ==
    JustLoaded =>
        /\ \A f \in Fields :
             (SetInFile(f) /\ SetInEnv(f)) => cfg[f] = env[EnvVar(f)]
        /\ \A f \in {"OAuth2CredentialsFile", "TokenFile"} :
             (~SetInFile(f) /\ ~SetInEnv(f) /\ ~SetInDotEnv(f)) =>
                 cfg[f] = DocumentedDefault(f)

\* C13 amended: a run with -json-config takes from the environment only
\* youtube_api_key (the environment's value wins over the file's); each of the
\* other five options holds the file's value when the file sets it and its
\* default otherwise, whatever the environment says. A run without
\* -json-config does not read the JSON file: each option holds the
\* environment's value, else the value of .env, else its default. In both, an
\* option set nowhere holds its default: client_secret.json for
\* oauth2_credentials_file, token.json for token_file.
C13_EnvironmentOverridesKeyOnly ==
    JustLoaded =>
        \A f \in Fields :
            /\ (useJSON /\ f = "YouTubeAPIKey" /\ SetInEnv(f)) => cfg[f] = env[EnvVar(f)]
            /\ (useJSON /\ (f # "YouTubeAPIKey" \/ ~SetInEnv(f))) =>
                 cfg[f] = IF SetInFile(f) THEN configFile.obj[JsonTag(f)]
                          ELSE DocumentedDefault(f)
            /\ ~useJSON =>
                 cfg[f] = IF SetInEnv(f) THEN env[EnvVar(f)]
                          ELSE IF SetInDotEnv(f) THEN dotenv[EnvVar(f)]
                          ELSE DocumentedDefault(f)
            /\ (~SetInFile(f) /\ ~SetInEnv(f) /\ ~SetInDotEnv(f)) =>
                 cfg[f] = DocumentedDefault(f)

\* C13 witness: with -json-config, a file and an environment that both set the
\* API key and the token path, the loaded configuration has the API key of the
\* environment and the token path of the file.
C13_Witness ==
    /\ JustLoaded
    /\ useJSON
    /\ SetInFile("YouTubeAPIKey") /\ SetInEnv("YouTubeAPIKey")
    /\ SetInFile("TokenFile") /\ SetInEnv("TokenFile")
    /\ ~SetInFile("OAuth2CredentialsFile") /\ ~SetInEnv("OAuth2CredentialsFile")
    /\ cfg.YouTubeAPIKey = env["YOUTUBE_API_KEY"]
    /\ cfg.TokenFile = configFile.obj["token_file"]
    /\ cfg.TokenFile # env["TOKEN_FILE"]
    /\ cfg.OAuth2CredentialsFile = "client_secret.json"

----------------------------------------------------------------------------
(* Properties of the serving loop *)

\* The words each tool's failure message names its operation with.
OperationPrefix(tool) ==
    CASE tool = "search_videos"      -> "failed to search videos: "
      [] tool = "get_channel_info"   -> "failed to get channel info: "
      [] tool = "get_video_details"  -> "failed to get video details: "
      [] tool = "get_playlist_items" -> "failed to get playlist items: "
      [] tool = "search_channels"    -> "failed to search channels: "

\* C14: no tool call ends the server process: whatever the upstream answered
\* (an error, no items, items with missing nested parts), the handler has
\* returned a success result or a failure whose message starts with the name
\* of the operation, and the process is still serving.
C14_NoCallEndsTheServer ==
    last # NoCall =>
        /\ pc = "serving"
        /\ exitCode = -1
        /\ last.result.kind \in {"result", "error"}
        /\ last.result.kind = "error" =>
             last.result.err.text[1] = OperationPrefix(last.tool)

\* SetupOfficialMCPTools has registered the tools of this run.
Registered == Happened("SetupOfficialMCPTools")

\* C15: when the tools are registered the client is in exactly one mode, API
\* key or OAuth2, and every step of the OAuth2 path (credentials read, token
\* read, prompt, code read, exchange, token write) lies before the
\* registration; a tool call is made only after it; and from then on no step
\* of the process, tool calls included, changes the service handle, its mode
\* or the configuration, or adds a prompt or an exchange.
C15_ModeChosenOnceAtStartup ==
    /\ [](Registered =>
            /\ service.mode \in {"apikey", "oauth2"}
            /\ \A i \in 1..Len(trace) :
                 trace[i] \in OAuth2Steps \cup {"Exchange", "Exchange failed"}
                     => i < Index("SetupOfficialMCPTools"))
    /\ [](last # NoCall => Registered)
    /\ [][(Registered /\ run' = run) => (service' = service /\ cfg' = cfg)]_vars

\* C15 witness: a run that went through the interactive exchange before it
\* registered its tools has answered a tool call and is still in OAuth2 mode.
C15_Witness ==
    /\ Before("Exchange", "SetupOfficialMCPTools")
    /\ Before("Scan", "Exchange")
    /\ pc = "serving"
    /\ last # NoCall
    /\ last.result.kind = "error"
    /\ service.mode = "oauth2"

\* The upstream request of the pending call failed.
UpstreamFailed == last # NoCall /\ ~last.resp.err.isNil

\* C16: every tool call makes one gateway call, which sends exactly one
\* upstream request; when that request fails the call returns a failure whose
\* text is the name of the operation followed by the text of the upstream
\* error, unchanged, and no second request was sent.
C16_OneRequestNoRetry ==
    last # NoCall =>
        /\ Len(last.gateway) = 1
        /\ Len(last.requests) = 1
        /\ UpstreamFailed =>
             /\ last.result.kind = "error"
             /\ last.result.err.text[1] = OperationPrefix(last.tool)
             /\ Len(last.result.err.text) = 3
             /\ <<last.result.err.text[3]>> = last.resp.err.text

\* C16 witness: get_video_details met an exhausted quota: one request, and a
\* failure that carries the upstream text behind the name of the operation.
C16_Witness ==
    /\ UpstreamFailed
    /\ last.tool = "get_video_details"
    /\ Len(last.requests) = 1
    /\ last.result.kind = "error"
    /\ last.result.err.text = <<"failed to get video details: ",
                                 "error getting video details: ",
                                 "googleapi: Error 403: quotaExceeded">>
    /\ pc = "serving"

\* The handler in slot k is blocked in call.Do().
Waiting(k) == calls[k].stage = "waiting"

\* C17: tool calls keep no state and do not disturb one another: once the
\* tools are registered, no step changes the service handle, the
\* configuration or the token files, and every handler that waits for its
\* upstream answer either still waits in a live server after a step of
\* another call, or has returned exactly what the same call returns when it
\* runs alone on the same upstream answer.
C17_CallsDoNotInterfere ==
    [][Registered =>
         /\ service' = service
         /\ cfg' = cfg
         /\ fs' = fs
         /\ \A k \in Slots :
              Waiting(k) =>
                  \/ calls'[k] = calls[k] /\ pc' = "serving"
                  \/ /\ calls'[k].stage = "done"
                     /\ calls'[k].rec =
                          HandlerOf(calls[k].tool, calls[k].raw, calls'[k].rec.resp)
      ]_vars

----------------------------------------------------------------------------
(* Properties of the token cache file *)

\* The steps of this run at which saveToken opened the token file for writing.
WriteAttempts == {i \in 1..Len(trace) : trace[i] \in {"Create", "Create failed"}}

\* C18: in one run the token file is opened for writing at most once, and
\* that as the step right after a successful exchange of the authorization
\* code, before the tools are registered; a run in API-key mode and a run that
\* loaded a cached token never write it; and the content of the token files
\* changes in no other step than that one, so never while the server serves.
C18_TokenWrittenOnceAfterExchange ==
    /\ [](/\ Cardinality(WriteAttempts) <= 1
          /\ \A i \in WriteAttempts :
               /\ i > 1
               /\ trace[i - 1] = "Exchange"
               /\ Registered => i < Index("SetupOfficialMCPTools")
          /\ (service.mode = "apikey" \/ Happened("tokenFromFile")) =>
               ~AnyOf(TokenWriteSteps))
    /\ [][fs' # fs =>
            /\ pc = "saveToken"
            /\ trace[Len(trace)] = "Exchange"
            /\ WriteAttempts = {}
            /\ \A p \in TokenPaths : p # cfg.TokenFile => fs'[p] = fs[p]]_vars

\* C18 witness: a run without a cached token exchanged a code, wrote the
\* token file once, and now serves a tool call with the file as it wrote it.
C18_Witness ==
    /\ pc = "serving"
    /\ last # NoCall
    /\ Cardinality(WriteAttempts) = 1
    /\ Before("Exchange", "Create")
    /\ Before("Encode", "SetupOfficialMCPTools")
    /\ fs[cfg.TokenFile] = JsonFile(Encode(service.tok))

\* The interactive authorization of this run has failed.
AuthorizationFailed == Happened("Scan failed") \/ Happened("Exchange failed")

\* C19: a failed interactive authorization leaves the token files as they
\* were: when reading the code or exchanging it fails, the run ends with exit
\* status 1 without having exchanged a code or created the token file, and no
\* step of a run changes a token file before that run has exchanged a code;
\* so the files after the failed run are the files it started with.
C19_FailedAuthorizationKeepsToken ==
    /\ [](AuthorizationFailed =>
            /\ pc = "exited"
            /\ exitCode = 1
            /\ ~Happened("Exchange")
            /\ ~AnyOf(TokenWriteSteps))
    /\ [][fs' # fs => Happened("Exchange")]_vars
    /\ [][AuthorizationFailed' => fs' = fs]_vars

\* C19 witness: the run found a token file it could not parse, asked for a
\* code, the exchange failed, and the file is still the unparseable one.
C19_Witness ==
    /\ Happened("tokenFromFile: decode failed")
    /\ Before("Scan", "Exchange failed")
    /\ pc = "exited"
    /\ exitCode = 1
    /\ fs[cfg.TokenFile] = Garbage

====
